---------------------------- MODULE Spec2Model ----------------------------
(***************************************************************************)
(* Model of charger_stats/station_uptimes_calculator.py: the aggregation  *)
(* of charger availability reports into per-station uptime percentages    *)
(* (calculate_station_uptimes), one action per loop iteration of the       *)
(* function.                                                               *)
(***************************************************************************)
EXTENDS Integers, Sequences, FiniteSets, TLC

(***************************************************************************)
(* Bounds of the model.                                                    *)
(***************************************************************************)
\* longest list of charger reports handed to calculate_station_uptimes (the
\* lists of one station's available reports go one report further)
MaxReports == 2

(***************************************************************************)
(* Python numbers.  A report time is an int or, as in the unit tests,      *)
(* float('inf') / float('-inf').  A finite number carries its value in n;  *)
(* the infinities carry none, so arithmetic on them is undefined here.     *)
(***************************************************************************)
Num(n) == [inf |-> 0, n |-> n]
PosInf == [inf |-> 1]
NegInf == [inf |-> -1]

\* a < b on Python numbers
Lt(a, b) == IF a.inf = 0 /\ b.inf = 0 THEN a.n < b.n ELSE a.inf < b.inf
\* a > b
Gt(a, b) == Lt(b, a)
\* a >= b (there is no NaN among the values)
Ge(a, b) == ~Lt(a, b)
\* a - b on finite numbers
Sub(a, b) == Num(a.n - b.n)
\* a + b on finite numbers
Add(a, b) == Num(a.n + b.n)

\* sys.maxsize.  It is 2^63 - 1 on a 64-bit CPython and 2^31 - 1 on a 32-bit
\* one; TLC's integers are 32 bits wide, so the model takes the 32-bit value.
sys_maxsize == 2147483647

(***************************************************************************)
(* Python dicts keep insertion order: a dict is the sequence of its        *)
(* <<key, value>> items, keys distinct.                                    *)
(***************************************************************************)
DictHas(d, k) == \E j \in 1..Len(d) : d[j][1] = k
DictGet(d, k) == d[CHOOSE j \in 1..Len(d) : d[j][1] = k][2]
\* d[k] = v: an existing key keeps its place, a new one goes last
DictSet(d, k, v) ==
    IF DictHas(d, k)
    THEN [j \in 1..Len(d) |-> IF d[j][1] = k THEN <<k, v>> ELSE d[j]]
    ELSE Append(d, <<k, v>>)

(***************************************************************************)
(* Floating point: int / int (true division), float * 100 and math.trunc   *)
(* on IEEE-754 doubles, for ints below 2^21 in magnitude.  A positive      *)
(* double is [limbs, s]: limbs are the digits in base 2^10, most           *)
(* significant first (the first digit may exceed the base), of an integer  *)
(* N of at most 53 significant bits, and the value is                      *)
(* N / 2^(10 * (Len(limbs) - 1) + s).                                      *)
(***************************************************************************)
SignificandBits == 53
LimbBits == 10

RECURSIVE Pow2(_)
Pow2(n) == IF n = 0 THEN 1 ELSE 2 * Pow2(n - 1)

LimbBase == Pow2(LimbBits)

RECURSIVE FloorLog2(_, _)
\* the e with 2^e <= a / d < 2^(e + 1), for a > 0, d > 0
FloorLog2(a, d) ==
    IF a < d THEN FloorLog2(2 * a, d) - 1
    ELSE IF a >= 2 * d THEN FloorLog2(a, 2 * d) + 1
    ELSE 0

RECURSIVE BitLength(_)
\* number of binary digits of n >= 0
BitLength(n) == IF n = 0 THEN 0 ELSE 1 + BitLength(n \div 2)

RECURSIVE LongDivision(_, _, _)
\* digits of the quotient of cur * LimbBase^n by d, and the remainder
LongDivision(cur, d, n) ==
    IF n = 0 THEN [limbs |-> <<cur \div d>>, rem |-> cur % d]
    ELSE LET rest == LongDivision((cur % d) * LimbBase, d, n - 1)
         IN  [limbs |-> <<cur \div d>> \o rest.limbs, rem |-> rest.rem]

RECURSIVE Carry(_)
\* bring every digit but the first below the base
Carry(limbs) ==
    IF Len(limbs) = 1 THEN limbs
    ELSE LET last == limbs[Len(limbs)]
             front == SubSeq(limbs, 1, Len(limbs) - 1)
         IN  Carry([front EXCEPT ![Len(front)] = @ + last \div LimbBase])
             \o <<last % LimbBase>>

\* a / d for ints a > 0, d > 0: the quotient rounded half-to-even to 53 bits
TrueDiv(a, d) ==
    LET k == (SignificandBits - 1) - FloorLog2(a, d)
        n == k \div LimbBits
        s == k % LimbBits
        q == LongDivision(a * Pow2(s), d, n)
        odd == q.limbs[n + 1] % 2 = 1
        up == 2 * q.rem > d \/ (2 * q.rem = d /\ odd)
    IN  [limbs |-> IF up THEN Carry([q.limbs EXCEPT ![n + 1] = @ + 1])
                   ELSE q.limbs,
         s |-> s]

\* x * 100 for a double x > 0: the product rounded half-to-even to 53 bits
Times100(x) ==
    LET n == Len(x.limbs)
        p == Carry([j \in 1..n |-> 100 * x.limbs[j]])
        lead == CHOOSE j \in 1..n : p[j] # 0 /\ \A h \in 1..(j - 1) : p[h] = 0
        bits == BitLength(p[lead]) + LimbBits * (n - lead)
        \* the digits below 2^t are rounded away; they lie in the last limb
        t == bits - SignificandBits
        low == p[n] % Pow2(t)
        odd == (p[n] \div Pow2(t)) % 2 = 1
        up == 2 * low > Pow2(t) \/ (2 * low = Pow2(t) /\ odd)
    IN  [limbs |-> IF t <= 0 THEN p
                   ELSE Carry([p EXCEPT ![n] = @ - low + (IF up THEN Pow2(t) ELSE 0)]),
         s |-> x.s]

\* math.trunc of a double x > 0
Trunc(x) == x.limbs[1] \div Pow2(x.s)

\* math.trunc((available / span) * 100) for ints, span # 0
UptimePercentage(available, span) ==
    IF available = 0 THEN 0
    ELSE LET a == IF available < 0 THEN -available ELSE available
             d == IF span < 0 THEN -span ELSE span
             p == Trunc(Times100(TrueDiv(a, d)))
         IN  IF (available < 0) = (span < 0) THEN p ELSE -p

(***************************************************************************)
(* Data: ChargerReport, StationUptimeCalculationState and the exceptions.  *)
(***************************************************************************)
ChargerReport(charger_id, start_time, end_time, charger_available) ==
    [charger_id |-> charger_id, start_time |-> start_time,
     end_time |-> end_time, charger_available |-> charger_available]

StationUptimeCalculationState(earliest, latest, calculation_time, available_time) ==
    [earliest_charger_start_time |-> earliest,
     latest_charger_end_time |-> latest,
     calculation_time |-> calculation_time,
     available_time |-> available_time]

NoException == [type |-> "None", kind |-> "none", id |-> 0]
\* TimeLineError.from_charger_report_inverted_timeline
InvertedTimeline(charger_id) ==
    [type |-> "TimeLineError", kind |-> "inverted_timeline", id |-> charger_id]
\* TimeLineError.from_charger_report_infinite_timeline
InfiniteTimeline(charger_id) ==
    [type |-> "TimeLineError", kind |-> "infinite_timeline", id |-> charger_id]
\* TimeLineError.from_non_existent_station_timeline
NonExistentStationTimeline(station_id) ==
    [type |-> "TimeLineError", kind |-> "non_existent_station_timeline",
     id |-> station_id]
\* KeyError raised by chargers_to_stations[report.charger_id]
KeyError(charger_id) == [type |-> "KeyError", kind |-> "key_error", id |-> charger_id]
\* ZeroDivisionError raised by int / int
ZeroDivisionError(station_id) ==
    [type |-> "ZeroDivisionError", kind |-> "zero_division", id |-> station_id]

(***************************************************************************)
(* Inputs of the model.                                                    *)
(***************************************************************************)
ChargerIds == {1001, 1002}
\* the finite report times: negative, zero and positive
FiniteTimes == {Num(t) : t \in (-2)..1}

\* dicts from charger id to station id: empty, one charger, two chargers of
\* one station, two stations (the station inserted first has the larger id)
OwnershipMaps ==
    { <<>>,
      << <<1001, 0>> >>,
      << <<1001, 0>>, <<1002, 0>> >>,
      << <<1002, 1>>, <<1001, 0>> >> }

\* reports that pass the per-report checks
WellFormedReports ==
    {r \in [charger_id : ChargerIds, start_time : FiniteTimes,
            end_time : FiniteTimes, charger_available : BOOLEAN] :
        ~Gt(r.start_time, r.end_time)}

\* reports of one charger whose times may be inverted or infinite
AnyTimes == {NegInf, Num(0), Num(1), PosInf}
AnyReports ==
    {ChargerReport(1001, s, e, a) : s \in AnyTimes, e \in AnyTimes, a \in BOOLEAN}

\* available reports of one charger, for the longer lists
AvailableReports == {r \in WellFormedReports : r.charger_id = 1001 /\ r.charger_available}

ListsOf(reports, lengths) == UNION {[1..n -> reports] : n \in lengths}

\* the <<ownership map, report list>> pairs calculate_station_uptimes is called on
Arguments ==
    (OwnershipMaps \X ListsOf(WellFormedReports, 0..MaxReports))
    \cup ({<< <<1001, 0>> >>} \X ListsOf(AvailableReports, {MaxReports + 1}))
    \cup ({<<>>, << <<1001, 0>> >>} \X ListsOf(AnyReports, 0..MaxReports))

VARIABLES
    chargers_to_stations,        \* argument: dict charger id -> station id
    charger_reports,             \* argument: list of ChargerReport
    station_uptime_calculations, \* local: dict station id -> calculation state
    sorted_charger_reports,      \* local: the reports sorted by start_time
    uptimes,                     \* local, returned: list of <<station id, percentage>>
    pc,                          \* the loop (or statement) the call is in
    i,                           \* index of the next item of that loop
    raised,                      \* the exception that ended the call, if one did
    passed,                      \* caller: the arguments as it passed them
    previous,                    \* caller: arguments and outcome of its previous call
    text_lines,                  \* parse_charger_text_reports: its argument; main: lines
    charger_id,                  \* parse_charger_text_reports: the local of lines 146 and 164
    isValid,                     \* validate_station_ids_in_reports: local, returned
    missing_station_ids,         \* validate_station_ids_in_reports: local, returned
    stdout,                      \* the lines printed so far
    main_pc                      \* the statement of main that is executing

vars == <<chargers_to_stations, charger_reports, station_uptime_calculations,
          sorted_charger_reports, uptimes, pc, i, raised, passed, previous,
          text_lines, charger_id, isValid, missing_station_ids, stdout, main_pc>>

\* what belongs to the other functions of the file and to the process
outside == <<text_lines, charger_id, isValid, missing_station_ids, stdout, main_pc>>

\* what a call of calculate_station_uptimes has no access to
caller == <<passed, previous, outside>>

(***************************************************************************)
(* Control flow of calculate_station_uptimes: its loops and statements in  *)
(* source order.  A for loop over an empty collection is passed over.      *)
(***************************************************************************)
\* slip: the reports validated after the first pass
Phases_ValidatedLate ==
    <<"init_stations", "sort", "first_pass", "validate", "check_timeline",
      "second_pass", "percentage", "returned">>

Phases == <<"validate", "init_stations", "sort", "first_pass", "check_timeline",
            "second_pass", "percentage", "returned">>

PhaseIndex(phase) == CHOOSE j \in 1..Len(Phases) : Phases[j] = phase

\* number of iterations of a phase, for nr reports and ns stations
Iterations(phase, nr, ns) ==
    CASE phase \in {"validate", "first_pass", "second_pass"} -> nr
      [] phase \in {"check_timeline", "percentage"} -> ns
      [] OTHER -> 1

RECURSIVE Enter(_, _, _)
\* the first phase from Phases[j] on that has something to execute
Enter(j, nr, ns) ==
    IF Iterations(Phases[j], nr, ns) > 0 THEN Phases[j] ELSE Enter(j + 1, nr, ns)

\* after iteration i of n of the current loop: the next iteration, or the
\* statement after the loop
Continue(n, ns) ==
    IF i < n
    THEN /\ i' = i + 1
         /\ pc' = pc
    ELSE /\ i' = 1
         /\ pc' = Enter(PhaseIndex(pc) + 1, Len(charger_reports), ns)

Raise(exception) ==
    /\ raised' = exception
    /\ pc' = "raised"
    /\ i' = i

Finished == pc \in {"returned", "raised"}

\* the locals of a call that starts: lines 221-222 and the first statement
NoCalculations == <<>>
NoUptimes == <<>>
FirstPhase(reports) == Enter(1, Len(reports), 0)

NoPrevious == [called |-> FALSE]

\* a local that no statement has assigned yet
Unbound == [bound |-> FALSE]
Bound(value) == [bound |-> TRUE, value |-> value]

\* the state outside a call that is made on its own, not from main
NotInMain ==
    /\ text_lines = <<>>
    /\ charger_id = Unbound
    /\ isValid = TRUE
    /\ missing_station_ids = <<>>
    /\ stdout = <<>>
    /\ main_pc = "not_called"

Init ==
    \E args \in Arguments :
        /\ chargers_to_stations = args[1]
        /\ charger_reports = args[2]
        /\ station_uptime_calculations = NoCalculations
        /\ sorted_charger_reports = <<>>
        /\ uptimes = NoUptimes
        /\ pc = FirstPhase(args[2])
        /\ i = 1
        /\ raised = NoException
        /\ passed = args
        /\ previous = NoPrevious
        /\ NotInMain

(***************************************************************************)
(* for report in charger_reports: the per-report timeline checks.          *)
(***************************************************************************)
\* slip: the timeline check guarded by the availability flag
IsInverted_AvailableOnly(report) ==
    report.charger_available /\ Gt(report.start_time, report.end_time)

IsInverted(report) == Gt(report.start_time, report.end_time)

IsInfinite(report) ==
    \/ report.start_time = NegInf
    \/ report.start_time = PosInf
    \/ report.end_time = NegInf
    \/ report.end_time = PosInf

ValidateReport ==
    /\ pc = "validate"
    /\ LET report == charger_reports[i]
       IN  IF IsInverted(report)
           THEN Raise(InvertedTimeline(report.charger_id))
           ELSE IF IsInfinite(report)
           THEN Raise(InfiniteTimeline(report.charger_id))
           ELSE /\ Continue(Len(charger_reports), 0)
                /\ UNCHANGED raised
    /\ UNCHANGED <<caller, chargers_to_stations, charger_reports, station_uptime_calculations,
                   sorted_charger_reports, uptimes>>

(***************************************************************************)
(* for station in chargers_to_stations.values(): a fresh state per station *)
(***************************************************************************)
InitialState == StationUptimeCalculationState(Num(sys_maxsize), Num(0), NegInf, Num(0))

\* slip: one state appended per charger of the map rather than set per station
RECURSIVE InitialCalculations_PerCharger(_)
InitialCalculations_PerCharger(map) ==
    IF map = <<>> THEN <<>>
    ELSE Append(InitialCalculations_PerCharger(SubSeq(map, 1, Len(map) - 1)),
                <<map[Len(map)][2], InitialState>>)

RECURSIVE InitialCalculations(_)
InitialCalculations(map) ==
    IF map = <<>> THEN <<>>
    ELSE DictSet(InitialCalculations(SubSeq(map, 1, Len(map) - 1)),
                 map[Len(map)][2], InitialState)

InitStations ==
    /\ pc = "init_stations"
    /\ station_uptime_calculations' = InitialCalculations(chargers_to_stations)
    /\ pc' = "sort"
    /\ UNCHANGED <<caller, chargers_to_stations, charger_reports, sorted_charger_reports,
                   uptimes, i, raised>>

(***************************************************************************)
(* sorted(charger_reports, key=lambda r: r.start_time): a new list, stable *)
(***************************************************************************)
\* report put behind the last item of the sorted list whose key is not greater
Insert(list, report) ==
    LET after == {j \in 1..Len(list) : ~Lt(report.start_time, list[j].start_time)}
        n == IF after = {} THEN 0 ELSE CHOOSE j \in after : \A h \in after : h <= j
    IN  SubSeq(list, 1, n) \o <<report>> \o SubSeq(list, n + 1, Len(list))

\* slip: the reports taken in the order given
Sorted_AsGiven(list) == list

RECURSIVE Sorted(_)
Sorted(list) ==
    IF list = <<>> THEN <<>>
    ELSE Insert(Sorted(SubSeq(list, 1, Len(list) - 1)), list[Len(list)])

\* slip: charger_reports.sort(...), which sorts the caller's list
SortReports_InPlace ==
    /\ pc = "sort"
    /\ sorted_charger_reports' = Sorted(charger_reports)
    /\ charger_reports' = Sorted(charger_reports)
    /\ pc' = Enter(PhaseIndex("sort") + 1, Len(charger_reports),
                   Len(station_uptime_calculations))
    /\ UNCHANGED <<caller, chargers_to_stations, station_uptime_calculations,
                   uptimes, i, raised>>

SortReports ==
    /\ pc = "sort"
    /\ sorted_charger_reports' = Sorted(charger_reports)
    /\ pc' = Enter(PhaseIndex("sort") + 1, Len(charger_reports),
                   Len(station_uptime_calculations))
    /\ UNCHANGED <<caller, chargers_to_stations, charger_reports, station_uptime_calculations,
                   uptimes, i, raised>>

(***************************************************************************)
(* First pass: earliest start time and latest end time of each station.    *)
(***************************************************************************)
\* slip: the latest end time taken from the report's start time
FirstPassState_LatestFromStart(state, report) ==
    LET earliest == IF Lt(report.start_time, state.earliest_charger_start_time)
                    THEN report.start_time
                    ELSE state.earliest_charger_start_time
        latest == IF Gt(report.start_time, state.latest_charger_end_time)
                  THEN report.start_time
                  ELSE state.latest_charger_end_time
    IN  [state EXCEPT !.earliest_charger_start_time = earliest,
                      !.latest_charger_end_time = latest]

FirstPassState(state, report) ==
    LET earliest == IF Lt(report.start_time, state.earliest_charger_start_time)
                    THEN report.start_time
                    ELSE state.earliest_charger_start_time
        latest == IF Gt(report.end_time, state.latest_charger_end_time)
                  THEN report.end_time
                  ELSE state.latest_charger_end_time
    IN  [state EXCEPT !.earliest_charger_start_time = earliest,
                      !.latest_charger_end_time = latest]

\* slip: the first pass guarded, like the second, by the availability flag
FirstPassReport_AvailableOnly ==
    /\ pc = "first_pass"
    /\ LET report == sorted_charger_reports[i]
       IN  IF ~report.charger_available
           THEN /\ Continue(Len(sorted_charger_reports),
                            Len(station_uptime_calculations))
                /\ UNCHANGED <<station_uptime_calculations, raised>>
           ELSE IF ~DictHas(chargers_to_stations, report.charger_id)
           THEN /\ Raise(KeyError(report.charger_id))
                /\ UNCHANGED station_uptime_calculations
           ELSE LET station_id == DictGet(chargers_to_stations, report.charger_id)
                    state == DictGet(station_uptime_calculations, station_id)
                IN  /\ station_uptime_calculations' =
                           DictSet(station_uptime_calculations, station_id,
                                   FirstPassState(state, report))
                    /\ Continue(Len(sorted_charger_reports),
                                Len(station_uptime_calculations))
                    /\ UNCHANGED raised
    /\ UNCHANGED <<caller, chargers_to_stations, charger_reports, sorted_charger_reports,
                   uptimes>>

FirstPassReport ==
    /\ pc = "first_pass"
    /\ LET report == sorted_charger_reports[i]
       IN  IF ~DictHas(chargers_to_stations, report.charger_id)
           THEN /\ Raise(KeyError(report.charger_id))
                /\ UNCHANGED station_uptime_calculations
           ELSE LET station_id == DictGet(chargers_to_stations, report.charger_id)
                    state == DictGet(station_uptime_calculations, station_id)
                IN  /\ station_uptime_calculations' =
                           DictSet(station_uptime_calculations, station_id,
                                   FirstPassState(state, report))
                    /\ Continue(Len(sorted_charger_reports),
                                Len(station_uptime_calculations))
                    /\ UNCHANGED raised
    /\ UNCHANGED <<caller, chargers_to_stations, charger_reports, sorted_charger_reports,
                   uptimes>>

(***************************************************************************)
(* The check of every station's timeline before the division.              *)
(***************************************************************************)
\* slip: no station's timeline is found missing
TimelineExists_Always(state) == TRUE

TimelineExists(state) ==
    state.earliest_charger_start_time # state.latest_charger_end_time

CheckStationTimeline ==
    /\ pc = "check_timeline"
    /\ LET id == station_uptime_calculations[i][1]
           station_calculation == station_uptime_calculations[i][2]
       IN  IF ~TimelineExists(station_calculation)
           THEN Raise(NonExistentStationTimeline(id))
           ELSE /\ Continue(Len(station_uptime_calculations),
                            Len(station_uptime_calculations))
                /\ UNCHANGED raised
    /\ UNCHANGED <<caller, chargers_to_stations, charger_reports, station_uptime_calculations,
                   sorted_charger_reports, uptimes>>

(***************************************************************************)
(* Second pass: the available time of each station.                        *)
(***************************************************************************)
\* slip: the cursor follows the end of the last available report
SecondPassState_LastEnd(state, report) ==
    IF Ge(report.start_time, state.calculation_time)
    THEN [state EXCEPT
            !.available_time = Add(@, Sub(report.end_time, report.start_time)),
            !.calculation_time = report.end_time]
    ELSE IF Gt(report.end_time, state.calculation_time)
    THEN [state EXCEPT
            !.available_time = Add(@, Sub(report.end_time, state.calculation_time)),
            !.calculation_time = report.end_time]
    ELSE [state EXCEPT !.calculation_time = report.end_time]

\* slip: an overlapping report credited with its whole length
SecondPassState_WholeLength(state, report) ==
    IF Ge(report.start_time, state.calculation_time)
    THEN [state EXCEPT
            !.available_time = Add(@, Sub(report.end_time, report.start_time)),
            !.calculation_time = report.end_time]
    ELSE IF Gt(report.end_time, state.calculation_time)
    THEN [state EXCEPT
            !.available_time = Add(@, Sub(report.end_time, report.start_time)),
            !.calculation_time = report.end_time]
    ELSE state

\* slip: a report credited with both of its end points
SecondPassState_Inclusive(state, report) ==
    IF Ge(report.start_time, state.calculation_time)
    THEN [state EXCEPT
            !.available_time =
                Add(@, Add(Sub(report.end_time, report.start_time), Num(1))),
            !.calculation_time = report.end_time]
    ELSE IF Gt(report.end_time, state.calculation_time)
    THEN [state EXCEPT
            !.available_time = Add(@, Sub(report.end_time, state.calculation_time)),
            !.calculation_time = report.end_time]
    ELSE state

SecondPassState(state, report) ==
    IF Ge(report.start_time, state.calculation_time)
    THEN [state EXCEPT
            !.available_time = Add(@, Sub(report.end_time, report.start_time)),
            !.calculation_time = report.end_time]
    ELSE IF Gt(report.end_time, state.calculation_time)
    THEN [state EXCEPT
            !.available_time = Add(@, Sub(report.end_time, state.calculation_time)),
            !.calculation_time = report.end_time]
    ELSE state

SecondPassReport ==
    /\ pc = "second_pass"
    /\ LET report == sorted_charger_reports[i]
       IN  IF report.charger_available
           THEN LET station_id == DictGet(chargers_to_stations, report.charger_id)
                    state == DictGet(station_uptime_calculations, station_id)
                IN  station_uptime_calculations' =
                        DictSet(station_uptime_calculations, station_id,
                                SecondPassState(state, report))
           ELSE UNCHANGED station_uptime_calculations
    /\ Continue(Len(sorted_charger_reports), Len(station_uptime_calculations))
    /\ UNCHANGED <<caller, chargers_to_stations, charger_reports, sorted_charger_reports,
                   uptimes, raised>>

(***************************************************************************)
(* Each station's simplified uptime percentage.                            *)
(***************************************************************************)
StationTimeline(state) ==
    Sub(state.latest_charger_end_time, state.earliest_charger_start_time)

CalculatePercentage ==
    /\ pc = "percentage"
    /\ LET id == station_uptime_calculations[i][1]
           station_calculation == station_uptime_calculations[i][2]
           timeline == StationTimeline(station_calculation).n
       IN  IF timeline = 0
           THEN /\ Raise(ZeroDivisionError(id))
                /\ UNCHANGED uptimes
           ELSE /\ uptimes' = Append(uptimes,
                        <<id, UptimePercentage(station_calculation.available_time.n,
                                               timeline)>>)
                /\ Continue(Len(station_uptime_calculations),
                            Len(station_uptime_calculations))
                /\ UNCHANGED raised
    /\ UNCHANGED <<caller, chargers_to_stations, charger_reports, station_uptime_calculations,
                   sorted_charger_reports>>

(***************************************************************************)
(* The caller: once its call has ended it calls a second time, with the    *)
(* same map and the same reports in any order.                             *)
(***************************************************************************)
Outcome(same_arguments) ==
    [called |-> TRUE,
     same_arguments |-> same_arguments,
     raised |-> raised,
     uptimes |-> IF pc = "returned" THEN uptimes ELSE <<>>,
     calculations |-> station_uptime_calculations]

Reordered(list) ==
    {[j \in 1..Len(list) |-> list[p[j]]] : p \in Permutations(1..Len(list))}

CallAgain ==
    /\ Finished
    /\ ~previous.called
    /\ \E reports \in Reordered(charger_reports) :
        /\ charger_reports' = reports
        /\ pc' = FirstPhase(reports)
        /\ passed' = <<chargers_to_stations, reports>>
        /\ previous' = Outcome(reports = charger_reports)
    /\ station_uptime_calculations' = NoCalculations
    /\ sorted_charger_reports' = <<>>
    /\ uptimes' = NoUptimes
    /\ i' = 1
    /\ raised' = NoException
    /\ UNCHANGED <<chargers_to_stations, outside>>

Next ==
    \/ ValidateReport
    \/ InitStations
    \/ SortReports
    \/ FirstPassReport
    \/ CheckStationTimeline
    \/ SecondPassReport
    \/ CalculatePercentage

Spec == Init /\ [][Next]_vars

\* a total order on reports, to start from one ordering of each list
TimeRank(t) == IF t.inf = 0 THEN t.n ELSE 1000 * t.inf
ReportRank(r) ==
    <<r.charger_id, TimeRank(r.start_time), TimeRank(r.end_time),
      IF r.charger_available THEN 1 ELSE 0>>
RankLeq(a, b) ==
    \E j \in 1..5 : /\ \A h \in 1..(j - 1) : a[h] = b[h]
                    /\ (j = 5 \/ a[j] < b[j])
InitOrdered ==
    /\ Init
    /\ \A j \in 1..(Len(charger_reports) - 1) :
          RankLeq(ReportRank(charger_reports[j]), ReportRank(charger_reports[j + 1]))

NextRecall == Next \/ CallAgain

SpecRecall == InitOrdered /\ [][NextRecall]_vars

(***************************************************************************)
(* Calls on longer timelines: one station whose charger reports            *)
(* [0, span], unavailable, and [0, available], available.                  *)
(***************************************************************************)
MaxSpan == 100

TimelineArguments ==
    {<< << <<1001, 0>> >>,
        IF available = 0
        THEN <<ChargerReport(1001, Num(0), Num(span), FALSE)>>
        ELSE <<ChargerReport(1001, Num(0), Num(span), FALSE),
               ChargerReport(1001, Num(0), Num(available), TRUE)>> >> :
        <<span, available>> \in {t \in (1..MaxSpan) \X (0..MaxSpan) : t[2] <= t[1]}}

InitTimelines ==
    \E args \in TimelineArguments :
        /\ chargers_to_stations = args[1]
        /\ charger_reports = args[2]
        /\ station_uptime_calculations = NoCalculations
        /\ sorted_charger_reports = <<>>
        /\ uptimes = NoUptimes
        /\ pc = FirstPhase(args[2])
        /\ i = 1
        /\ raised = NoException
        /\ passed = args
        /\ previous = NoPrevious
        /\ NotInMain

SpecTimelines == InitTimelines /\ [][Next]_vars

(***************************************************************************)
(* Text.  A token is a sequence of characters without whitespace; a line   *)
(* of text is its tokens, separated by single spaces, and its line end,    *)
(* "\n" or nothing (the last line of a file may lack the newline).         *)
(***************************************************************************)
Line(tokens, end) == [tokens |-> tokens, end |-> end]

\* str.isspace(): at least one character, all of them whitespace
isspace(line) == line.tokens = <<>> /\ line.end = "\n"

\* str.split()
split(line) == line.tokens

\* the lines the parser compares with: '[Stations]\n' and
\* '[Charger Availability Reports]\n'
StationsHeading ==
    Line(<< <<"[", "S", "t", "a", "t", "i", "o", "n", "s", "]">> >>, "\n")

ChargerReportsHeading ==
    Line(<< <<"[", "C", "h", "a", "r", "g", "e", "r">>,
            <<"A", "v", "a", "i", "l", "a", "b", "i", "l", "i", "t", "y">>,
            <<"R", "e", "p", "o", "r", "t", "s", "]">> >>, "\n")

\* slip: a heading found whatever the end of its line
SectionIndex_IgnoringLineEnd(lines, heading) ==
    IF \E j \in 1..Len(lines) : lines[j].tokens = heading.tokens
    THEN (CHOOSE j \in 1..Len(lines) :
              /\ lines[j].tokens = heading.tokens
              /\ \A h \in 1..(j - 1) : lines[h].tokens # heading.tokens) - 1
    ELSE -1

\* the index of the first line equal to heading, as enumerate counts it, or
\* -1 where next() raises StopIteration
SectionIndex(lines, heading) ==
    IF \E j \in 1..Len(lines) : lines[j] = heading
    THEN (CHOOSE j \in 1..Len(lines) :
              /\ lines[j] = heading
              /\ \A h \in 1..(j - 1) : lines[h] # heading) - 1
    ELSE -1

(***************************************************************************)
(* int(token) and str(n), base 10.  int accepts a sign, then digits with   *)
(* single underscores between them; anything else is a ValueError.         *)
(***************************************************************************)
Digits == <<"0", "1", "2", "3", "4", "5", "6", "7", "8", "9">>

IsDigit(c) == \E d \in 1..Len(Digits) : Digits[d] = c

DigitValue(c) == (CHOOSE d \in 1..Len(Digits) : Digits[d] = c) - 1

Unsigned(token) ==
    IF token # <<>> /\ token[1] \in {"+", "-"} THEN Tail(token) ELSE token

IsIntLiteral(token) ==
    LET body == Unsigned(token)
    IN  /\ body # <<>>
        /\ \A j \in 1..Len(body) :
              \/ IsDigit(body[j])
              \/ /\ body[j] = "_"
                 /\ 1 < j /\ j < Len(body)
                 /\ IsDigit(body[j - 1]) /\ IsDigit(body[j + 1])

RECURSIVE Magnitude(_)
Magnitude(body) ==
    IF body = <<>> THEN 0
    ELSE LET front == Magnitude(SubSeq(body, 1, Len(body) - 1))
             last == body[Len(body)]
         IN  IF last = "_" THEN front ELSE 10 * front + DigitValue(last)

int(token) ==
    IF token[1] = "-" THEN -Magnitude(Unsigned(token)) ELSE Magnitude(Unsigned(token))

RECURSIVE DecimalDigits(_)
DecimalDigits(n) ==
    IF n < 10 THEN <<Digits[n + 1]>>
    ELSE Append(DecimalDigits(n \div 10), Digits[(n % 10) + 1])

str(n) == IF n < 0 THEN <<"-">> \o DecimalDigits(-n) ELSE DecimalDigits(n)

(***************************************************************************)
(* parse_charger_text_reports(text_lines).  Its locals chargers_to_stations*)
(* and charger_reports are the variables of those names, its line_index is *)
(* one less than the position i in text_lines.                             *)
(***************************************************************************)
NoStationsSectionError == [type |-> "NoStationsSectionError"]
EmptyStationsSectionError == [type |-> "EmptyStationsSectionError"]
NoChargerReportsSectionError == [type |-> "NoChargerReportsSectionError"]
EmptyChargerReportsSectionError == [type |-> "EmptyChargerReportsSectionError"]

\* the message holds the field name, the line index and the value as text
InvalidChargerReportValueError(data_field, text_line, invalid_value) ==
    [type |-> "InvalidChargerReportValueError", data_field |-> data_field,
     text_line |-> text_line, invalid_value |-> invalid_value]

\* raised by list[index] past the end, and by reading an unassigned local
IndexError == [type |-> "IndexError"]
UnboundLocalError == [type |-> "UnboundLocalError"]

line_index == i - 1

\* the condition of the two while loops
MoreLines == line_index < Len(text_lines) /\ ~isspace(text_lines[line_index + 1])

FindStationsSection ==
    /\ pc = "find_stations"
    /\ LET station_section_index == SectionIndex(text_lines, StationsHeading)
       IN  IF station_section_index = -1
           THEN Raise(NoStationsSectionError)
           ELSE /\ i' = (station_section_index + 1) + 1
                /\ pc' = "station_lines"
                /\ UNCHANGED raised
    /\ UNCHANGED <<chargers_to_stations, charger_reports, station_uptime_calculations,
                   sorted_charger_reports, uptimes, passed, previous, outside>>

RECURSIVE SetAll_KeepingFirstOwner(_, _, _)
\* slip: chargers_to_stations.setdefault(charger_id, station_id)
SetAll_KeepingFirstOwner(map, station_charger_ids, station_id) ==
    IF station_charger_ids = <<>> THEN map
    ELSE SetAll_KeepingFirstOwner(
             IF DictHas(map, station_charger_ids[1]) THEN map
             ELSE DictSet(map, station_charger_ids[1], station_id),
             Tail(station_charger_ids), station_id)

RECURSIVE SetAll(_, _, _)
\* for charger_id in station_charger_ids: chargers_to_stations[charger_id] = station_id
SetAll(map, station_charger_ids, station_id) ==
    IF station_charger_ids = <<>> THEN map
    ELSE SetAll(DictSet(map, station_charger_ids[1], station_id),
                Tail(station_charger_ids), station_id)

ParseStationLine ==
    /\ pc = "station_lines"
    /\ MoreLines
    /\ LET station_entry_list == split(text_lines[line_index + 1])
           rest == Tail(station_entry_list)
           station_charger_ids == [j \in 1..Len(rest) |-> int(rest[j])]
       IN  IF station_entry_list = <<>>
           THEN /\ Raise(IndexError)
                /\ UNCHANGED <<chargers_to_stations, charger_id>>
           ELSE IF ~IsIntLiteral(station_entry_list[1])
           THEN /\ Raise(InvalidChargerReportValueError("station_id", line_index,
                                                        station_entry_list[1]))
                /\ UNCHANGED <<chargers_to_stations, charger_id>>
           ELSE IF \E j \in 1..Len(rest) : ~IsIntLiteral(rest[j])
           THEN \* line 144 reads the function's local charger_id, not the
                \* comprehension's
                /\ IF charger_id.bound
                   THEN Raise(InvalidChargerReportValueError("charger_id", line_index,
                                                             str(charger_id.value)))
                   ELSE Raise(UnboundLocalError)
                /\ UNCHANGED <<chargers_to_stations, charger_id>>
           ELSE /\ chargers_to_stations' =
                       SetAll(chargers_to_stations, station_charger_ids,
                              int(station_entry_list[1]))
                /\ charger_id' = IF station_charger_ids = <<>> THEN charger_id
                                 ELSE Bound(station_charger_ids[Len(station_charger_ids)])
                /\ i' = i + 1
                /\ UNCHANGED <<pc, raised>>
    /\ UNCHANGED <<charger_reports, station_uptime_calculations, sorted_charger_reports,
                   uptimes, passed, previous, text_lines, isValid, missing_station_ids,
                   stdout, main_pc>>

\* slip: the reports heading looked for before the map is tested
FindChargerReportsSection_HeadingFirst ==
    /\ pc = "station_lines"
    /\ ~MoreLines
    /\ LET charger_section_index == SectionIndex(text_lines, ChargerReportsHeading)
       IN  IF charger_section_index = -1
           THEN Raise(NoChargerReportsSectionError)
           ELSE /\ i' = (charger_section_index + 1) + 1
                /\ pc' = "report_lines"
                /\ UNCHANGED raised
    /\ UNCHANGED <<chargers_to_stations, charger_reports, station_uptime_calculations,
                   sorted_charger_reports, uptimes, passed, previous, outside>>

FindChargerReportsSection ==
    /\ pc = "station_lines"
    /\ ~MoreLines
    /\ LET charger_section_index == SectionIndex(text_lines, ChargerReportsHeading)
       IN  IF chargers_to_stations = <<>>
           THEN Raise(EmptyStationsSectionError)
           ELSE IF charger_section_index = -1
           THEN Raise(NoChargerReportsSectionError)
           ELSE /\ i' = (charger_section_index + 1) + 1
                /\ pc' = "report_lines"
                /\ UNCHANGED raised
    /\ UNCHANGED <<chargers_to_stations, charger_reports, station_uptime_calculations,
                   sorted_charger_reports, uptimes, passed, previous, outside>>

\* slip: the flag compared with the capitalised text
TrueText_Capitalised == <<"T", "r", "u", "e">>

\* the text 'true' of line 178
TrueText == <<"t", "r", "u", "e">>

ParseReportLine ==
    /\ pc = "report_lines"
    /\ MoreLines
    /\ LET charger_entry_list == split(text_lines[line_index + 1])
           Has(n) == Len(charger_entry_list) >= n
           Value(n) == int(charger_entry_list[n])
           Invalid(data_field, n) ==
               Raise(InvalidChargerReportValueError(data_field, line_index,
                                                    charger_entry_list[n]))
       IN  IF ~Has(1)
           THEN /\ Raise(IndexError)
                /\ UNCHANGED <<charger_reports, charger_id>>
           ELSE IF ~IsIntLiteral(charger_entry_list[1])
           THEN /\ Invalid("charger_id", 1)
                /\ UNCHANGED <<charger_reports, charger_id>>
           ELSE /\ charger_id' = Bound(Value(1))
                /\ IF ~Has(2)
                   THEN Raise(IndexError) /\ UNCHANGED charger_reports
                   ELSE IF ~IsIntLiteral(charger_entry_list[2])
                   THEN Invalid("charger_start_time", 2) /\ UNCHANGED charger_reports
                   ELSE IF ~Has(3)
                   THEN Raise(IndexError) /\ UNCHANGED charger_reports
                   ELSE IF ~IsIntLiteral(charger_entry_list[3])
                   THEN Invalid("charger_end_time", 3) /\ UNCHANGED charger_reports
                   ELSE IF ~Has(4)
                   THEN Raise(IndexError) /\ UNCHANGED charger_reports
                   ELSE /\ charger_reports' =
                               Append(charger_reports,
                                      ChargerReport(Value(1), Num(Value(2)), Num(Value(3)),
                                                    charger_entry_list[4] = TrueText))
                        /\ i' = i + 1
                        /\ UNCHANGED <<pc, raised>>
    /\ UNCHANGED <<chargers_to_stations, station_uptime_calculations,
                   sorted_charger_reports, uptimes, passed, previous, text_lines, isValid,
                   missing_station_ids, stdout, main_pc>>

ReturnParsed ==
    /\ pc = "report_lines"
    /\ ~MoreLines
    /\ IF charger_reports = <<>>
       THEN Raise(EmptyChargerReportsSectionError)
       ELSE /\ pc' = "returned"
            /\ UNCHANGED <<i, raised>>
    /\ UNCHANGED <<chargers_to_stations, charger_reports, station_uptime_calculations,
                   sorted_charger_reports, uptimes, passed, previous, outside>>

ParseNext ==
    \/ FindStationsSection
    \/ ParseStationLine
    \/ FindChargerReportsSection
    \/ ParseReportLine
    \/ ReturnParsed

(***************************************************************************)
(* Texts the parser is called on.                                          *)
(***************************************************************************)
MaxLines == 2

Zero == <<"0">>
One == <<"1">>
PlusZeroOne == <<"+", "0", "1">>
MinusOne == <<"-", "1">>
Id1001 == <<"1", "0", "0", "1">>
Id1002 == <<"1", "0", "0", "2">>
Id1_001 == <<"1", "_", "0", "0", "1">>
NotAnInt == <<"x">>
DigitThenLetter == <<"1", "x">>
SignThenLetter == <<"-", "x">>
CapitalTrue == <<"T", "r", "u", "e">>
FalseText == <<"f", "a", "l", "s", "e">>

Newline == "\n"
BlankLine == Line(<<>>, Newline)
EmptyLastLine == Line(<<>>, "")

\* station lines: station id, then charger ids
StationLines ==
    { Line(<<Zero, Id1001>>, Newline),
      Line(<<One, Id1001, Id1002>>, Newline),
      Line(<<PlusZeroOne, Id1002>>, Newline),
      Line(<<Zero>>, Newline),
      Line(<<NotAnInt, Id1001>>, Newline),
      Line(<<Zero, DigitThenLetter>>, Newline) }

\* report lines: charger id, start time, end time, availability
ReportLines ==
    { Line(<<Id1001, Zero, One, TrueText>>, Newline),
      Line(<<Id1001, Zero, One, TrueText>>, ""),
      Line(<<Id1002, Zero, One, CapitalTrue>>, Newline),
      Line(<<Id1001, One, Zero, FalseText>>, Newline),
      Line(<<Id1002, Zero, Zero, Zero>>, Newline),
      Line(<<Id1_001, MinusOne, PlusZeroOne, TrueText, NotAnInt>>, Newline),
      Line(<<Id1001, Zero, One>>, Newline),
      Line(<<Id1001, Zero, TrueText>>, Newline),
      Line(<<Id1001>>, Newline),
      Line(<<NotAnInt, Zero, One, TrueText>>, Newline),
      Line(<<Id1001, SignThenLetter, One, TrueText>>, Newline),
      EmptyLastLine }

\* a heading as written, without its newline, or left out
HeadingVariants(heading) == {<<heading>>, <<Line(heading.tokens, "")>>, <<>>}

GoodStationsSection == <<StationsHeading, Line(<<Zero, Id1001>>, Newline), BlankLine>>
GoodReportsSection ==
    <<ChargerReportsHeading, Line(<<Id1001, Zero, One, TrueText>>, Newline)>>

Texts ==
    { heading \o lines \o blank \o reports :
        heading \in HeadingVariants(StationsHeading),
        lines \in ListsOf(StationLines, 0..MaxLines),
        blank \in {<<BlankLine>>, <<>>},
        reports \in {GoodReportsSection, <<>>} }
    \cup
    { GoodStationsSection \o heading \o lines :
        heading \in HeadingVariants(ChargerReportsHeading),
        lines \in ListsOf(ReportLines, 0..MaxLines) }
    \cup
    { GoodReportsSection \o <<BlankLine>> \o GoodStationsSection,
      GoodStationsSection \o <<BlankLine>> \o GoodReportsSection \o <<BlankLine>>,
      GoodStationsSection \o <<ChargerReportsHeading, BlankLine>> \o GoodReportsSection }

InitParse ==
    \E lines \in Texts :
        /\ text_lines = lines
        /\ chargers_to_stations = <<>>
        /\ charger_reports = <<>>
        /\ charger_id = Unbound
        /\ pc = "find_stations"
        /\ i = 1
        /\ raised = NoException
        /\ station_uptime_calculations = NoCalculations
        /\ sorted_charger_reports = <<>>
        /\ uptimes = NoUptimes
        /\ passed = <<lines>>
        /\ previous = NoPrevious
        /\ isValid = TRUE
        /\ missing_station_ids = <<>>
        /\ stdout = <<>>
        /\ main_pc = "not_called"

SpecParse == InitParse /\ [][ParseNext]_vars

(***************************************************************************)
(* validate_station_ids_in_reports(chargers_to_stations, charger_reports). *)
(***************************************************************************)
\* slip: an id that is missing listed once
CheckStationId_ListingOnce ==
    /\ pc = "validate_ids"
    /\ LET report == charger_reports[i]
       IN  IF DictHas(chargers_to_stations, report.charger_id)
           THEN UNCHANGED <<isValid, missing_station_ids>>
           ELSE /\ isValid' = FALSE
                /\ missing_station_ids' =
                       IF \E j \in 1..Len(missing_station_ids) :
                              missing_station_ids[j] = report.charger_id
                       THEN missing_station_ids
                       ELSE Append(missing_station_ids, report.charger_id)
    /\ IF i < Len(charger_reports)
       THEN i' = i + 1 /\ pc' = pc
       ELSE i' = i /\ pc' = "returned"
    /\ UNCHANGED <<chargers_to_stations, charger_reports, station_uptime_calculations,
                   sorted_charger_reports, uptimes, raised, passed, previous, text_lines,
                   charger_id, stdout, main_pc>>

\* one iteration of the loop of line 202; after the last one, line 210
CheckStationId ==
    /\ pc = "validate_ids"
    /\ LET report == charger_reports[i]
       IN  IF DictHas(chargers_to_stations, report.charger_id)
           THEN UNCHANGED <<isValid, missing_station_ids>>
           ELSE /\ isValid' = FALSE
                /\ missing_station_ids' = Append(missing_station_ids, report.charger_id)
    /\ IF i < Len(charger_reports)
       THEN i' = i + 1 /\ pc' = pc
       ELSE i' = i /\ pc' = "returned"
    /\ UNCHANGED <<chargers_to_stations, charger_reports, station_uptime_calculations,
                   sorted_charger_reports, uptimes, raised, passed, previous, text_lines,
                   charger_id, stdout, main_pc>>

\* maps and lists of reports of three chargers, one of them in no map
ValidatorArguments ==
    OwnershipMaps
    \X ListsOf({ChargerReport(c, Num(0), Num(1), TRUE) : c \in ChargerIds \cup {1003}},
               0..(MaxReports + 2))

InitValidate ==
    \E args \in ValidatorArguments :
        /\ chargers_to_stations = args[1]
        /\ charger_reports = args[2]
        /\ isValid = TRUE
        /\ missing_station_ids = <<>>
        /\ pc = IF args[2] = <<>> THEN "returned" ELSE "validate_ids"
        /\ i = 1
        /\ raised = NoException
        /\ station_uptime_calculations = NoCalculations
        /\ sorted_charger_reports = <<>>
        /\ uptimes = NoUptimes
        /\ passed = args
        /\ previous = NoPrevious
        /\ text_lines = <<>>
        /\ charger_id = Unbound
        /\ stdout = <<>>
        /\ main_pc = "not_called"

SpecValidate == InitValidate /\ [][CheckStationId]_vars

(***************************************************************************)
(* main().  The process is started with command-line arguments and a file  *)
(* system, kept in passed; main's locals chargers_to_stations,             *)
(* charger_reports and uptimes are the variables of those names, its lines *)
(* is text_lines.  pc is the position of the function main has called.     *)
(***************************************************************************)
SystemExit == [type |-> "SystemExit"]
FileNotFoundError == [type |-> "FileNotFoundError"]
UnicodeDecodeError == [type |-> "UnicodeDecodeError"]

\* the text printed by print('ERROR') and by print(f"{station_id} {uptime}")
ErrorText == <<"E", "R", "R", "O", "R">>
ResultText(station_id, uptime) == str(station_id) \o <<" ">> \o str(uptime)

print(text) == stdout' = Append(stdout, text)

cli_arguments == passed[1]
files == passed[2]

\* a file whose bytes are no text in the encoding open() reads with
Undecodable == [decodable |-> FALSE]
Text(lines) == [decodable |-> TRUE, lines |-> lines]

\* lines 275-279: parse() returns for exactly one positional argument
MainParseArguments ==
    /\ main_pc = "parse_arguments"
    /\ IF Len(cli_arguments) = 1
       THEN /\ main_pc' = "read_file"
            /\ UNCHANGED <<stdout, raised>>
       ELSE /\ print(ErrorText)
            /\ raised' = SystemExit
            /\ main_pc' = "raised"
    /\ UNCHANGED <<chargers_to_stations, charger_reports, station_uptime_calculations,
                   sorted_charger_reports, uptimes, pc, i, passed, previous, text_lines,
                   charger_id, isValid, missing_station_ids>>

\* lines 282-291: the file is read and the parser is called on its lines
MainReadFile ==
    /\ main_pc = "read_file"
    /\ LET reports_file_path == cli_arguments[1]
       IN  IF ~DictHas(files, reports_file_path)
           THEN /\ print(ErrorText)
                /\ raised' = FileNotFoundError
                /\ main_pc' = "raised"
                /\ UNCHANGED <<text_lines, pc>>
           ELSE IF ~DictGet(files, reports_file_path).decodable
           THEN /\ raised' = UnicodeDecodeError
                /\ main_pc' = "raised"
                /\ UNCHANGED <<stdout, text_lines, pc>>
           ELSE /\ text_lines' = DictGet(files, reports_file_path).lines
                /\ main_pc' = "parse_text"
                /\ pc' = "find_stations"
                /\ UNCHANGED <<stdout, raised>>
    /\ UNCHANGED <<chargers_to_stations, charger_reports, station_uptime_calculations,
                   sorted_charger_reports, uptimes, i, passed, previous, charger_id,
                   isValid, missing_station_ids>>

\* lines 291-297: the parser has returned or raised
MainParsed ==
    /\ main_pc = "parse_text"
    /\ Finished
    /\ IF pc = "raised"
       THEN /\ print(ErrorText)
            /\ main_pc' = "raised"
            /\ UNCHANGED <<pc, i>>
       ELSE /\ main_pc' = "calculate"
            /\ pc' = FirstPhase(charger_reports)
            /\ i' = 1
            /\ UNCHANGED stdout
    /\ UNCHANGED <<chargers_to_stations, charger_reports, station_uptime_calculations,
                   sorted_charger_reports, uptimes, raised, passed, previous, text_lines,
                   charger_id, isValid, missing_station_ids>>

RECURSIVE InsertByStation(_, _)
InsertByStation(list, uptime) ==
    IF list = <<>> THEN <<uptime>>
    ELSE IF uptime[1] < list[Len(list)][1]
         THEN Append(InsertByStation(SubSeq(list, 1, Len(list) - 1), uptime),
                     list[Len(list)])
         ELSE Append(list, uptime)

\* slip: the pairs printed in the order returned
SortedByStation_AsReturned(list) == list

RECURSIVE SortedByStation(_)
\* sorted(uptimes, key=lambda x: x[0])
SortedByStation(list) ==
    IF list = <<>> THEN <<>>
    ELSE InsertByStation(SortedByStation(SubSeq(list, 1, Len(list) - 1)), list[Len(list)])

\* lines 297-306: calculate_station_uptimes has returned or raised
MainCalculated ==
    /\ main_pc = "calculate"
    /\ Finished
    /\ IF pc = "raised"
       THEN /\ IF raised.type = "TimeLineError"
               THEN print(ErrorText)
               ELSE UNCHANGED stdout
            /\ main_pc' = "raised"
       ELSE LET station_sorted_uptimes == SortedByStation(uptimes)
            IN  /\ stdout' = stdout \o [j \in 1..Len(station_sorted_uptimes) |->
                                ResultText(station_sorted_uptimes[j][1],
                                           station_sorted_uptimes[j][2])]
                /\ main_pc' = "exited"
    /\ UNCHANGED <<chargers_to_stations, charger_reports, station_uptime_calculations,
                   sorted_charger_reports, uptimes, pc, i, raised, passed, previous,
                   text_lines, charger_id, isValid, missing_station_ids>>

\* command lines: no argument, the path of the file, a path that names no
\* file, and one argument too many
CommandLines ==
    {<<>>, <<"reports.txt">>, <<"missing.txt">>, <<"reports.txt", "123">>}

\* what file.readlines() can return: every line ends with its newline, but
\* for a last line, which then is not empty
IsFileImage(lines) ==
    \A j \in 1..Len(lines) :
        \/ lines[j].end = Newline
        \/ j = Len(lines) /\ lines[j].tokens # <<>>

\* file systems with the one file reports.txt
FileSystems ==
    {<< <<"reports.txt", Text(lines)>> >> : lines \in {t \in Texts : IsFileImage(t)}}
    \cup {<< <<"reports.txt", Undecodable>> >>}

InitMain ==
    \E argv \in CommandLines, file_system \in FileSystems :
        /\ passed = <<argv, file_system>>
        /\ main_pc = "parse_arguments"
        /\ stdout = <<>>
        /\ pc = "not_called"
        /\ i = 1
        /\ raised = NoException
        /\ text_lines = <<>>
        /\ chargers_to_stations = <<>>
        /\ charger_reports = <<>>
        /\ charger_id = Unbound
        /\ station_uptime_calculations = NoCalculations
        /\ sorted_charger_reports = <<>>
        /\ uptimes = NoUptimes
        /\ previous = NoPrevious
        /\ isValid = TRUE
        /\ missing_station_ids = <<>>

MainNext ==
    \/ MainParseArguments
    \/ MainReadFile
    \/ MainParsed
    \/ MainCalculated
    \/ ParseNext
    \/ Next

SpecMain == InitMain /\ [][MainNext]_vars

(***************************************************************************)
(* Vocabulary of the properties.                                           *)
(***************************************************************************)
IsMapped(report) == DictHas(chargers_to_stations, report.charger_id)
StationOf(report) == DictGet(chargers_to_stations, report.charger_id)
Stations == {chargers_to_stations[j][2] : j \in 1..Len(chargers_to_stations)}

\* positions in charger_reports of the reports of a station's chargers
ReportsOf(station) ==
    {j \in 1..Len(charger_reports) :
        IsMapped(charger_reports[j]) /\ StationOf(charger_reports[j]) = station}

IsZeroLength(report) == report.start_time = report.end_time

\* the conditions of a report that the claims speak of, read off its two times
StartsAfterEnd(report) ==
    IF report.start_time.inf = 0 /\ report.end_time.inf = 0
    THEN report.start_time.n > report.end_time.n
    ELSE report.start_time.inf > report.end_time.inf

HasInfiniteTime(report) ==
    report.start_time.inf # 0 \/ report.end_time.inf # 0

\* the unit cells [t, t + 1) of the time line that an available report of the
\* station covers: their number is the length of the union of its intervals
TimeLine == {x.n : x \in FiniteTimes}

CoveredCells(station) ==
    {t \in TimeLine :
        \E j \in ReportsOf(station) :
            /\ charger_reports[j].charger_available
            /\ charger_reports[j].start_time.n <= t
            /\ t + 1 <= charger_reports[j].end_time.n}

Calculation(station) == DictGet(station_uptime_calculations, station)
Percentage(station) == DictGet(uptimes, station)

\* the second pass is over
SecondPassDone == pc \in {"percentage", "returned"}

(***************************************************************************)
(* C1: when the second pass is over (and so whenever the call returns),    *)
(* each station's available_time is the length of the union of the         *)
(* intervals of its available reports: time covered by several of them is  *)
(* counted once.                                                           *)
(***************************************************************************)
C1_AvailableTimeIsUnionLength ==
    SecondPassDone =>
        \A station \in Stations :
            Calculation(station).available_time = Num(Cardinality(CoveredCells(station)))

\* three available reports of one station: two overlap partly, one is nested
C1_Witness ==
    /\ pc = "returned"
    /\ Len(charger_reports) = 3
    /\ \E j, h \in ReportsOf(0) :
          /\ charger_reports[j].charger_available
          /\ charger_reports[h].charger_available
          /\ Lt(charger_reports[j].start_time, charger_reports[h].start_time)
          /\ Lt(charger_reports[h].start_time, charger_reports[j].end_time)
          /\ Lt(charger_reports[j].end_time, charger_reports[h].end_time)
    /\ \E j, h \in ReportsOf(0) :
          /\ charger_reports[j].charger_available
          /\ charger_reports[h].charger_available
          /\ Lt(charger_reports[j].start_time, charger_reports[h].start_time)
          /\ Lt(charger_reports[h].end_time, charger_reports[j].end_time)

(***************************************************************************)
(* C2: whenever the call returns, every percentage of the result is an     *)
(* integer from 0 to 100.                                                  *)
(***************************************************************************)
C2_PercentagesInRange ==
    pc = "returned" =>
        \A j \in 1..Len(uptimes) : uptimes[j][2] \in 0..100

\* a result with a station of unavailable reports only and a station whose
\* available report lies at negative times
C2_Witness ==
    /\ pc = "returned"
    /\ \E station \in Stations :
          /\ ReportsOf(station) # {}
          /\ \A j \in ReportsOf(station) : ~charger_reports[j].charger_available
    /\ \E station \in Stations :
          /\ \E j \in ReportsOf(station) :
                /\ charger_reports[j].charger_available
                /\ Lt(charger_reports[j].end_time, Num(0))
          /\ Percentage(station) \in 1..99

HasPointTimeline(station) ==
    /\ ReportsOf(station) # {}
    /\ \A j, h \in ReportsOf(station) :
          /\ IsZeroLength(charger_reports[j])
          /\ charger_reports[j].start_time = charger_reports[h].start_time

\* no per-report check fails and every report's charger has a station
AllReportsUsable ==
    \A j \in 1..Len(charger_reports) :
        /\ ~StartsAfterEnd(charger_reports[j])
        /\ ~HasInfiniteTime(charger_reports[j])
        /\ IsMapped(charger_reports[j])

C4_PointTimelineRaises ==
    (Finished /\ AllReportsUsable /\ \E station \in Stations : HasPointTimeline(station))
        => /\ pc = "raised"
           /\ raised.kind = "non_existent_station_timeline"

(***************************************************************************)
(* C5 (as claimed): a second-pass step on an available report with         *)
(* start_time = end_time changes neither available_time nor                *)
(* calculation_time of its station, and a first-pass step on it takes it   *)
(* into the station's earliest start and latest end.                       *)
(***************************************************************************)
Report == sorted_charger_reports[i]

ZeroLengthSecondPassStep ==
    /\ pc = "second_pass"
    /\ Report.charger_available
    /\ IsZeroLength(Report)
    /\ station_uptime_calculations' # station_uptime_calculations \/ pc' # pc \/ i' # i

ZeroLengthFirstPassStep ==
    /\ pc = "first_pass"
    /\ IsZeroLength(Report)
    /\ IsMapped(Report)
    /\ station_uptime_calculations' # station_uptime_calculations \/ pc' # pc \/ i' # i

TakesPartInTimeline ==
    LET before == Calculation(StationOf(Report))
        after == DictGet(station_uptime_calculations', StationOf(Report))
    IN  /\ after.earliest_charger_start_time =
               IF Lt(Report.start_time, before.earliest_charger_start_time)
               THEN Report.start_time ELSE before.earliest_charger_start_time
        /\ after.latest_charger_end_time =
               IF Gt(Report.end_time, before.latest_charger_end_time)
               THEN Report.end_time ELSE before.latest_charger_end_time

C5_ZeroLengthReportChangesNothing ==
    [][ /\ ZeroLengthSecondPassStep =>
              station_uptime_calculations' = station_uptime_calculations
        /\ ZeroLengthFirstPassStep => TakesPartInTimeline ]_vars

(***************************************************************************)
(* C5 (amended): such a second-pass step leaves available_time unchanged   *)
(* and leaves calculation_time unchanged when the report's time t is below *)
(* it; when t >= calculation_time (always so at the -inf sentinel)         *)
(* calculation_time becomes t.  The first-pass part is as claimed.         *)
(***************************************************************************)
C5_ZeroLengthReportAddsNoTime ==
    [][ /\ ZeroLengthSecondPassStep =>
              LET before == Calculation(StationOf(Report))
                  after == DictGet(station_uptime_calculations', StationOf(Report))
              IN  /\ after.available_time = before.available_time
                  /\ after.calculation_time =
                         IF Ge(Report.end_time, before.calculation_time)
                         THEN Report.end_time ELSE before.calculation_time
                  /\ \A j \in 1..Len(station_uptime_calculations) :
                        station_uptime_calculations[j][1] # StationOf(Report)
                            => station_uptime_calculations'[j] =
                                   station_uptime_calculations[j]
        /\ ZeroLengthFirstPassStep => TakesPartInTimeline ]_vars

\* the second pass has just taken a zero-length available report as its first
\* report: calculation_time has left the sentinel for the report's time
C5_Witness ==
    /\ pc = "second_pass"
    /\ i = 2
    /\ sorted_charger_reports[1].charger_available
    /\ IsZeroLength(sorted_charger_reports[1])
    /\ LET state == Calculation(StationOf(sorted_charger_reports[1]))
       IN  /\ state.calculation_time = sorted_charger_reports[1].end_time
           /\ state.available_time = Num(0)
           /\ state.earliest_charger_start_time = sorted_charger_reports[1].start_time

(***************************************************************************)
(* C6: a second call on the same reports in another order ends as the      *)
(* first did: it returns iff the first returned, with the same list of     *)
(* <<station id, percentage>> and the same available_time per station, and *)
(* raises an exception of the same class iff the first raised.             *)
(***************************************************************************)
AvailableTimes(calculations) ==
    [j \in 1..Len(calculations) |-> <<calculations[j][1], calculations[j][2].available_time>>]

C6_OrderOfReportsIsIrrelevant ==
    (Finished /\ previous.called) =>
        /\ raised.type = previous.raised.type
        /\ pc = "returned" =>
              /\ uptimes = previous.uptimes
              /\ AvailableTimes(station_uptime_calculations)
                     = AvailableTimes(previous.calculations)

\* the second call got the reports in another order and returned; two available
\* reports of one station start together and end apart
C6_Witness ==
    /\ pc = "returned"
    /\ previous.called
    /\ ~previous.same_arguments
    /\ \E j, h \in ReportsOf(0) :
          /\ charger_reports[j].charger_available
          /\ charger_reports[h].charger_available
          /\ charger_reports[j].start_time = charger_reports[h].start_time
          /\ Lt(charger_reports[j].end_time, charger_reports[h].end_time)
          /\ Lt(charger_reports[j].start_time, charger_reports[j].end_time)

(***************************************************************************)
(* C7: a call never changes the ownership map or the report list it was    *)
(* given, whether it returns or raises; it starts from fresh aggregation   *)
(* state; and a second call on the same arguments ends exactly as the      *)
(* first did.                                                              *)
(***************************************************************************)
C7_CallsAreRepeatable ==
    /\ chargers_to_stations = passed[1]
    /\ charger_reports = passed[2]
    /\ pc \in {"validate", "init_stations"} =>
          /\ station_uptime_calculations = <<>>
          /\ uptimes = <<>>
    /\ (Finished /\ previous.called /\ previous.same_arguments) =>
          /\ raised = previous.raised
          /\ station_uptime_calculations = previous.calculations
          /\ pc = "returned" => uptimes = previous.uptimes

\* the second call on the same arguments returned; the reports were not in
\* start_time order, so sorting had something to do
C7_Witness ==
    /\ pc = "returned"
    /\ previous.called
    /\ previous.same_arguments
    /\ sorted_charger_reports # charger_reports
    /\ \E j \in 1..Len(uptimes) : uptimes[j][2] \in 1..99

(***************************************************************************)
(* C8 (as claimed): if some report has finite times with start_time >      *)
(* end_time, the call raises the inverted-timeline error and returns       *)
(* nothing, whatever the other reports are.                                *)
(***************************************************************************)
Fails(report) == StartsAfterEnd(report) \/ HasInfiniteTime(report)

HasFiniteInvertedReport ==
    \E j \in 1..Len(charger_reports) :
        StartsAfterEnd(charger_reports[j]) /\ ~HasInfiniteTime(charger_reports[j])

C8_InvertedReportRaisesInverted ==
    (Finished /\ HasFiniteInvertedReport) =>
        /\ pc = "raised"
        /\ raised.kind = "inverted_timeline"
        /\ uptimes = <<>>

(***************************************************************************)
(* C8 (amended): if some report has finite times with start_time >         *)
(* end_time, the call raises a TimeLineError and returns nothing, whatever *)
(* that report's availability flag, its charger's ownership and the other  *)
(* reports; it is the error of the first report of the list that fails a   *)
(* per-report check: inverted-timeline if that report has start_time >     *)
(* end_time, infinite-timeline otherwise.                                  *)
(***************************************************************************)
FirstFailing ==
    CHOOSE j \in 1..Len(charger_reports) :
        /\ Fails(charger_reports[j])
        /\ \A h \in 1..(j - 1) : ~Fails(charger_reports[h])

C8_InvertedReportRaisesTimeLineError ==
    (Finished /\ HasFiniteInvertedReport) =>
        /\ pc = "raised"
        /\ raised = IF StartsAfterEnd(charger_reports[FirstFailing])
                    THEN InvertedTimeline(charger_reports[FirstFailing].charger_id)
                    ELSE InfiniteTimeline(charger_reports[FirstFailing].charger_id)
        /\ uptimes = <<>>

\* the inverted report is the second of the list, unavailable, and no charger
\* has a station
C8_Witness ==
    /\ pc = "raised"
    /\ raised.kind = "inverted_timeline"
    /\ chargers_to_stations = <<>>
    /\ Len(charger_reports) = 2
    /\ ~Fails(charger_reports[1])
    /\ StartsAfterEnd(charger_reports[2])
    /\ ~HasInfiniteTime(charger_reports[2])
    /\ ~charger_reports[2].charger_available

(***************************************************************************)
(* C9 (as claimed): if some report has an infinite start_time or end_time, *)
(* the call raises the infinite-timeline error, whichever time is infinite *)
(* and whatever its sign.                                                  *)
(***************************************************************************)
C9_InfiniteReportRaisesInfinite ==
    (Finished /\ \E j \in 1..Len(charger_reports) : HasInfiniteTime(charger_reports[j])) =>
        /\ pc = "raised"
        /\ raised.kind = "infinite_timeline"

(***************************************************************************)
(* C10: if every report passes the per-report checks and some report's     *)
(* charger id is no key of the ownership map, the call raises KeyError and *)
(* returns nothing, whether that report is available or not.               *)
(***************************************************************************)
C10_UnknownChargerRaisesKeyError ==
    ( /\ Finished
      /\ \A j \in 1..Len(charger_reports) : ~Fails(charger_reports[j])
      /\ \E j \in 1..Len(charger_reports) : ~IsMapped(charger_reports[j]) ) =>
        /\ pc = "raised"
        /\ raised.type = "KeyError"
        /\ uptimes = <<>>

\* KeyError with a non-empty map: the only report of an unknown charger is
\* unavailable and comes with a report of a known charger
C10_Witness ==
    /\ pc = "raised"
    /\ raised.type = "KeyError"
    /\ chargers_to_stations # <<>>
    /\ \E j \in 1..Len(charger_reports) : IsMapped(charger_reports[j])
    /\ \A j \in 1..Len(charger_reports) :
          ~IsMapped(charger_reports[j]) => ~charger_reports[j].charger_available

(***************************************************************************)
(* C11: when the call returns, the result has exactly one pair for each    *)
(* distinct station id among the map's values, in the order in which the   *)
(* stations first occur in the map; a station without any report has       *)
(* percentage 0, and the non-existent-station-timeline error is never      *)
(* raised for such a station.                                              *)
(***************************************************************************)
RECURSIVE FirstOccurrences(_)
\* the distinct values of a sequence, each at the place of its first occurrence
FirstOccurrences(values) ==
    IF values = <<>> THEN <<>>
    ELSE LET front == FirstOccurrences(SubSeq(values, 1, Len(values) - 1))
             last == values[Len(values)]
         IN  IF \E j \in 1..Len(front) : front[j] = last
             THEN front
             ELSE Append(front, last)

StationsInMapOrder ==
    FirstOccurrences([j \in 1..Len(chargers_to_stations) |-> chargers_to_stations[j][2]])

C11_OnePairPerStationInMapOrder ==
    /\ pc = "returned" =>
          /\ [j \in 1..Len(uptimes) |-> uptimes[j][1]] = StationsInMapOrder
          /\ \A j \in 1..Len(uptimes) :
                ReportsOf(uptimes[j][1]) = {} => uptimes[j][2] = 0
    /\ (pc = "raised" /\ raised.kind = "non_existent_station_timeline") =>
          ReportsOf(raised.id) # {}

\* two stations, the one inserted first with the larger id and without any
\* report, the other with a percentage above 0
C11_Witness ==
    /\ pc = "returned"
    /\ Len(uptimes) = 2
    /\ uptimes[1][1] > uptimes[2][1]
    /\ ReportsOf(uptimes[1][1]) = {}
    /\ uptimes[1][2] = 0
    /\ uptimes[2][2] > 0

(***************************************************************************)
(* C12 (as claimed): each returned percentage is 100 * available_time /    *)
(* (latest end - earliest start) truncated toward zero, as computed on the *)
(* exact ratio: 29 over 100 gives 29.                                      *)
(***************************************************************************)
\* the integer quotient truncated toward zero
TruncatedQuotient(a, b) ==
    LET abs(x) == IF x < 0 THEN -x ELSE x
        q == abs(a) \div abs(b)
    IN  IF (a < 0) = (b < 0) THEN q ELSE -q

C12_PercentageIsTruncatedRatio ==
    pc = "returned" =>
        \A j \in 1..Len(uptimes) :
            LET state == Calculation(uptimes[j][1])
            IN  uptimes[j][2] =
                    TruncatedQuotient(100 * state.available_time.n,
                                      StationTimeline(state).n)

(***************************************************************************)
(* Vocabulary of the properties of the parser: the text as the claims read *)
(* it.                                                                     *)
(***************************************************************************)
HasLine(heading) == \E j \in 1..Len(text_lines) : text_lines[j] = heading

IsBlank(line) == line = [tokens |-> <<>>, end |-> "\n"]

\* the lines after the first line equal to heading, up to the first blank
\* line or the end of the text
SectionLines(heading) ==
    LET first == CHOOSE j \in 1..Len(text_lines) :
                     /\ text_lines[j] = heading
                     /\ \A h \in 1..(j - 1) : text_lines[h] # heading
        last == CHOOSE k \in first..Len(text_lines) :
                     /\ \A h \in (first + 1)..k : ~IsBlank(text_lines[h])
                     /\ k = Len(text_lines) \/ IsBlank(text_lines[k + 1])
    IN  SubSeq(text_lines, first + 1, last)

\* the line a loop of the parser is at
CurrentLine == text_lines[i]

\* the position of the first token of the line, among its first n or fewer,
\* that is no integer; 0 if there is none
FirstBadToken(line, n) ==
    LET bad == {j \in 1..Len(line.tokens) : j <= n /\ ~IsIntLiteral(line.tokens[j])}
    IN  IF bad = {} THEN 0 ELSE CHOOSE j \in bad : \A h \in bad : j <= h

InStationsLoop == pc = "station_lines" /\ i <= Len(text_lines) /\ ~IsBlank(CurrentLine)
InReportsLoop == pc = "report_lines" /\ i <= Len(text_lines) /\ ~IsBlank(CurrentLine)

(***************************************************************************)
(* C13 (as claimed): a line of the stations section with a token that is   *)
(* no integer, and a line of the reports section with such a token among   *)
(* its first three, makes the parser raise InvalidChargerReportValueError  *)
(* with the field of the first such token (station_id, charger_id,         *)
(* charger_start_time or charger_end_time), the 0-based index of the line  *)
(* and the text of that token.                                             *)
(***************************************************************************)
C13_BadTokenRaisesInvalidValue ==
    [][ /\ ( /\ InStationsLoop
             /\ FirstBadToken(CurrentLine, Len(CurrentLine.tokens)) # 0 ) =>
              LET bad == FirstBadToken(CurrentLine, Len(CurrentLine.tokens))
              IN  /\ pc' = "raised"
                  /\ raised' = InvalidChargerReportValueError(
                                   IF bad = 1 THEN "station_id" ELSE "charger_id",
                                   i - 1, CurrentLine.tokens[bad])
        /\ ( /\ InReportsLoop
             /\ FirstBadToken(CurrentLine, 3) # 0 ) =>
              LET bad == FirstBadToken(CurrentLine, 3)
              IN  /\ pc' = "raised"
                  /\ raised' = InvalidChargerReportValueError(
                                   <<"charger_id", "charger_start_time",
                                     "charger_end_time">>[bad],
                                   i - 1, CurrentLine.tokens[bad])
      ]_vars

(***************************************************************************)
(* C14: the parser raises NoStationsSectionError whenever no line is       *)
(* '[Stations]' followed by a newline; it raises                           *)
(* NoChargerReportsSectionError when the stations section parses to a      *)
(* non-empty map and no line is '[Charger Availability Reports]' followed  *)
(* by a newline; and while the stations section does not parse to a        *)
(* non-empty map, no check of the reports section is made: the error is    *)
(* none of the two reports-section errors and no report line was read.     *)
(***************************************************************************)
StationsLineText == [tokens |-> << <<"[", "S", "t", "a", "t", "i", "o", "n", "s", "]">> >>,
                     end |-> "\n"]

ChargerReportsLineText ==
    [tokens |-> << <<"[", "C", "h", "a", "r", "g", "e", "r">>,
                   <<"A", "v", "a", "i", "l", "a", "b", "i", "l", "i", "t", "y">>,
                   <<"R", "e", "p", "o", "r", "t", "s", "]">> >>,
     end |-> "\n"]

\* every line of the stations section is a station id and charger ids, all
\* integers, and some line has a charger id
StationsSectionParses ==
    /\ HasLine(StationsLineText)
    /\ LET lines == SectionLines(StationsLineText)
       IN  /\ \A j \in 1..Len(lines) :
                 /\ lines[j].tokens # <<>>
                 /\ FirstBadToken(lines[j], Len(lines[j].tokens)) = 0
           /\ \E j \in 1..Len(lines) : Len(lines[j].tokens) >= 2

StationsSectionHasNoCharger ==
    /\ HasLine(StationsLineText)
    /\ LET lines == SectionLines(StationsLineText)
       IN  \A j \in 1..Len(lines) :
               /\ Len(lines[j].tokens) = 1
               /\ FirstBadToken(lines[j], 1) = 0

C15_EmptySectionsRaise ==
    /\ (Finished /\ StationsSectionHasNoCharger) =>
          pc = "raised" /\ raised = EmptyStationsSectionError
    /\ ( /\ Finished
         /\ StationsSectionParses
         /\ HasLine(ChargerReportsLineText)
         /\ SectionLines(ChargerReportsLineText) = <<>> ) =>
          pc = "raised" /\ raised = EmptyChargerReportsSectionError
    /\ pc = "returned" => (chargers_to_stations # <<>> /\ charger_reports # <<>>)

\* a stations section of two lines without any charger id, with the reports
\* section in place
C15_Witness ==
    /\ pc = "raised"
    /\ raised = EmptyStationsSectionError
    /\ Len(SectionLines(StationsLineText)) = 2
    /\ HasLine(ChargerReportsLineText)

(***************************************************************************)
(* C16 (as claimed): a line of the reports section with fewer than four    *)
(* tokens makes the parser raise InvalidChargerReportValueError, whichever *)
(* field is missing.                                                       *)
(***************************************************************************)
C16_ShortReportLineRaisesInvalidValue ==
    [][ (InReportsLoop /\ Len(CurrentLine.tokens) < 4) =>
            /\ pc' = "raised"
            /\ raised'.type = "InvalidChargerReportValueError" ]_vars

(***************************************************************************)
(* C17: a report line whose first three tokens are integers and that has   *)
(* a fourth token is read without an exception, and its report is          *)
(* available exactly if the fourth token is the text true, in lower case.  *)
(***************************************************************************)
C17_AvailableOnlyForTrue ==
    [][ ( /\ InReportsLoop
          /\ Len(CurrentLine.tokens) >= 4
          /\ FirstBadToken(CurrentLine, 3) = 0 ) =>
            /\ pc' = "report_lines"
            /\ raised' = raised
            /\ Len(charger_reports') = Len(charger_reports) + 1
            /\ charger_reports'[Len(charger_reports')].charger_available
                   = (CurrentLine.tokens[4] = <<"t", "r", "u", "e">>) ]_vars

\* two reports were read: one from a line ending in true, available, and
\* one from a line ending in True, not available
C17_Witness ==
    /\ pc = "returned"
    /\ Len(charger_reports) = 2
    /\ charger_reports[1].charger_available
    /\ ~charger_reports[2].charger_available
    /\ SectionLines(ChargerReportsLineText)[2].tokens[4] = <<"T", "r", "u", "e">>

(***************************************************************************)
(* C18: once the stations section has been parsed, the keys of the map are *)
(* the charger ids the section lists, and each maps to the station id of   *)
(* the last line that lists it; so a station whose chargers are all listed *)
(* again by later lines of other stations is none of the map's values.     *)
(* Listing a charger id more than once raises nothing.                     *)
(***************************************************************************)
\* the positions of the section's lines that list charger id c
LinesListing(lines, c) ==
    {j \in 1..Len(lines) :
        \E k \in 2..Len(lines[j].tokens) : int(lines[j].tokens[k]) = c}

ListedChargers(lines) ==
    UNION {{int(lines[j].tokens[k]) : k \in 2..Len(lines[j].tokens)} : j \in 1..Len(lines)}

LastOwner(lines, c) ==
    LET last == CHOOSE j \in LinesListing(lines, c) :
                    \A h \in LinesListing(lines, c) : h <= j
    IN  int(lines[last].tokens[1])

C18_LastStationLineOwnsCharger ==
    (StationsSectionParses /\ (Finished \/ pc = "report_lines")) =>
        LET lines == SectionLines(StationsLineText)
            keys == {chargers_to_stations[j][1] : j \in 1..Len(chargers_to_stations)}
        IN  /\ keys = ListedChargers(lines)
            /\ Cardinality(keys) = Len(chargers_to_stations)
            /\ \A c \in keys : DictGet(chargers_to_stations, c) = LastOwner(lines, c)
            /\ Stations = {LastOwner(lines, c) : c \in keys}
            /\ pc = "raised" =>
                  raised.type \notin {"EmptyStationsSectionError", "UnboundLocalError"}

\* charger 1001 is listed under station 0, then under station 1, and station
\* 0 is none of the map's values
C18_Witness ==
    /\ pc = "returned"
    /\ LET lines == SectionLines(StationsLineText)
       IN  /\ Len(lines) = 2
           /\ LinesListing(lines, 1001) = {1, 2}
           /\ int(lines[1].tokens[1]) = 0
    /\ DictGet(chargers_to_stations, 1001) = 1
    /\ 0 \notin Stations

(***************************************************************************)
(* C19: validate_station_ids_in_reports returns (valid, missing) where     *)
(* missing is the charger ids of the reports whose charger id is no key of *)
(* the map, in the order of the list and as often as they occur, and valid *)
(* is true exactly if missing is empty; the map and the list stay as they  *)
(* were passed.                                                            *)
(***************************************************************************)
RECURSIVE UnknownChargerIds(_, _)
UnknownChargerIds(map, reports) ==
    IF reports = <<>> THEN <<>>
    ELSE LET first == reports[1].charger_id
             rest == UnknownChargerIds(map, Tail(reports))
         IN  IF \E j \in 1..Len(map) : map[j][1] = first
             THEN rest
             ELSE <<first>> \o rest

C20_FailureIsAnnounced ==
    main_pc = "raised" => stdout = << <<"E", "R", "R", "O", "R">> >>

(***************************************************************************)
(* C21: when main ends without an exception, stdout holds one line         *)
(* '<station_id> <percentage>' for each pair that                          *)
(* calculate_station_uptimes returned and nothing else, the lines in       *)
(* strictly ascending order of station id.                                 *)
(***************************************************************************)
C21_ResultsPrintedInStationOrder ==
    main_pc = "exited" =>
        \E p \in Permutations(1..Len(uptimes)) :
            /\ Len(stdout) = Len(uptimes)
            /\ \A j \in 1..Len(uptimes) :
                  /\ stdout[j] = str(uptimes[p[j]][1]) \o <<" ">> \o str(uptimes[p[j]][2])
                  /\ j < Len(uptimes) => uptimes[p[j]][1] < uptimes[p[j + 1]][1]

\* two stations, returned with the larger station id first
C21_Witness ==
    /\ main_pc = "exited"
    /\ Len(stdout) = 2
    /\ Len(uptimes) = 2
    /\ uptimes[1][1] > uptimes[2][1]
    /\ uptimes[1][2] # uptimes[2][2]

(***************************************************************************)
(* C22 (as claimed): when the first pass is over, each station that has    *)
(* reports has as earliest_charger_start_time the least start_time and as  *)
(* latest_charger_end_time the greatest end_time of its reports, available *)
(* or not, also when all end times are negative.                           *)
(***************************************************************************)
FirstPassDone == pc \in {"check_timeline", "second_pass", "percentage", "returned"}

C22_TimelineIsMinStartToMaxEnd ==
    FirstPassDone =>
        \A station \in Stations :
            ReportsOf(station) # {} =>
                LET state == Calculation(station)
                    starts == {charger_reports[j].start_time.n : j \in ReportsOf(station)}
                    ends == {charger_reports[j].end_time.n : j \in ReportsOf(station)}
                IN  /\ state.earliest_charger_start_time.n \in starts
                    /\ \A s \in starts : state.earliest_charger_start_time.n <= s
                    /\ state.latest_charger_end_time.n \in ends
                    /\ \A e \in ends : e <= state.latest_charger_end_time.n

(***************************************************************************)
(* C23: the call checks in a fixed order.  No charger is looked up before  *)
(* every report has passed the inverted and infinite checks, and no        *)
(* station's timeline is tested before every report's charger has been     *)
(* looked up.  So a list with an inverted report raises the timeline error *)
(* of a report also when a charger has no station, and a list with a       *)
(* charger without station raises KeyError also when a station has a point *)
(* timeline.                                                               *)
(***************************************************************************)
\* some lookup of the first pass has been made, or is about to be
LookupsBegun == pc = "first_pass" \/ FirstPassDone

\* earliest start and latest end of the station would be equal
WouldBeDegenerate(station) ==
    /\ ReportsOf(station) # {}
    /\ \A j \in ReportsOf(station) :
          /\ charger_reports[j].start_time = Num(0)
          /\ charger_reports[j].end_time = Num(0)

C23_ChecksInFixedOrder ==
    /\ LookupsBegun => \A j \in 1..Len(charger_reports) : ~Fails(charger_reports[j])
    /\ FirstPassDone => \A j \in 1..Len(charger_reports) : IsMapped(charger_reports[j])
    /\ (pc = "raised" /\ raised.type = "KeyError") =>
          \A j \in 1..Len(charger_reports) : ~Fails(charger_reports[j])
    /\ (pc = "raised" /\ raised.kind = "non_existent_station_timeline") =>
          \A j \in 1..Len(charger_reports) :
              ~Fails(charger_reports[j]) /\ IsMapped(charger_reports[j])
    /\ ( /\ Finished
         /\ \E j \in 1..Len(charger_reports) : StartsAfterEnd(charger_reports[j])
         /\ \E j \in 1..Len(charger_reports) : ~IsMapped(charger_reports[j]) ) =>
          pc = "raised" /\ raised.kind \in {"inverted_timeline", "infinite_timeline"}
    /\ ( /\ Finished
         /\ \A j \in 1..Len(charger_reports) : ~Fails(charger_reports[j])
         /\ \E j \in 1..Len(charger_reports) : ~IsMapped(charger_reports[j])
         /\ \E station \in Stations : WouldBeDegenerate(station) ) =>
          pc = "raised" /\ raised.type = "KeyError"

\* KeyError although station 0's reports are all at time 0
C23_Witness ==
    /\ pc = "raised"
    /\ raised.type = "KeyError"
    /\ \E station \in Stations : WouldBeDegenerate(station)

(***************************************************************************)
(* C24: the percentage step never divides by zero.  Once every station has *)
(* passed the check of its timeline, latest_charger_end_time minus         *)
(* earliest_charger_start_time is not zero for any station, and no call    *)
(* ends in ZeroDivisionError.                                              *)
(***************************************************************************)
PastTimelineCheck == pc \in {"second_pass", "percentage", "returned"}

C24_NoDivisionByZero ==
    /\ raised.type # "ZeroDivisionError"
    /\ PastTimelineCheck =>
          \A j \in 1..Len(station_uptime_calculations) :
              StationTimeline(station_uptime_calculations[j][2]) # Num(0)

\* the division about to be made for a station whose reports are all of
\* zero length and at one time
C24_Witness ==
    /\ pc = "percentage"
    /\ LET station == station_uptime_calculations[i][1]
       IN  /\ ReportsOf(station) # {}
           /\ \A j \in ReportsOf(station) :
                 /\ IsZeroLength(charger_reports[j])
                 /\ charger_reports[j].start_time = Num(-2)

(***************************************************************************)
(* C25: the second pass, station by station.  calculation_time is the      *)
(* coverage cursor and available_time the covered duration.                *)
(***************************************************************************)
\* number of reports of sorted_charger_reports the second pass has processed
Processed ==
    IF pc = "second_pass" THEN i - 1
    ELSE IF SecondPassDone THEN Len(sorted_charger_reports)
    ELSE 0

\* positions of the processed available reports of a station's chargers
ProcessedAvailable(station) ==
    {j \in 1..Processed :
        /\ sorted_charger_reports[j].charger_available
        /\ StationOf(sorted_charger_reports[j]) = station}

\* covered > cursor - earliest_start, as Python compares an int with the
\* difference: float('-inf') - int is float('-inf'), below every int
ExceedsCursorSpan(state) ==
    IF state.calculation_time.inf = 0
    THEN state.available_time.n >
             state.calculation_time.n - state.earliest_charger_start_time.n
    ELSE state.calculation_time.inf < 0

CursorIsLatestProcessedEnd(station) ==
    ProcessedAvailable(station) # {} =>
        /\ \E j \in ProcessedAvailable(station) :
              Calculation(station).calculation_time = sorted_charger_reports[j].end_time
        /\ \A j \in ProcessedAvailable(station) :
              Ge(Calculation(station).calculation_time, sorted_charger_reports[j].end_time)

\* what one iteration of the second pass does to the stations' values
SecondPassStepKeepsOrder ==
    pc = "second_pass" =>
        /\ \A j \in 1..Len(station_uptime_calculations) :
              LET before == station_uptime_calculations[j][2]
                  after == station_uptime_calculations'[j][2]
              IN  /\ station_uptime_calculations'[j][1] = station_uptime_calculations[j][1]
                  /\ Ge(after.calculation_time, before.calculation_time)
                  /\ Ge(after.available_time, before.available_time)
        /\ ~sorted_charger_reports[i].charger_available =>
              station_uptime_calculations' = station_uptime_calculations

\* a step that enters the second pass or is one of its iterations
InSecondPass == pc' = "second_pass" \/ pc = "second_pass"

(***************************************************************************)
(* C25 (as claimed): throughout the second pass, for every station, the    *)
(* cursor never decreases and, once an available report of the station has *)
(* been processed, is the greatest end_time of the station's processed     *)
(* available reports; the covered duration never decreases and never       *)
(* exceeds the cursor minus the station's earliest start; an unavailable   *)
(* report changes neither.                                                 *)
(***************************************************************************)
C25_CoveredNeverExceedsCursorSpan ==
    [][ /\ SecondPassStepKeepsOrder
        /\ InSecondPass =>
              (\A station \in Stations :
                   /\ CursorIsLatestProcessedEnd(station)
                   /\ ~ExceedsCursorSpan(Calculation(station)))' ]_vars

(***************************************************************************)
(* C25 (amended): as claimed, with the bound on the covered duration       *)
(* holding once an available report of the station has been processed;     *)
(* until then the cursor is float('-inf') and the covered duration is 0.   *)
(***************************************************************************)
C25_SecondPassKeepsCursorAndCover ==
    [][ /\ SecondPassStepKeepsOrder
        /\ InSecondPass =>
              (\A station \in Stations :
                   /\ CursorIsLatestProcessedEnd(station)
                   /\ IF ProcessedAvailable(station) # {}
                      THEN ~ExceedsCursorSpan(Calculation(station))
                      ELSE /\ Calculation(station).calculation_time = NegInf
                           /\ Calculation(station).available_time = Num(0))' ]_vars

\* both reports of a station processed, the second overlapping the first
\* and ending after it
C25_Witness ==
    /\ SecondPassDone
    /\ Len(sorted_charger_reports) = 2
    /\ \E station \in Stations :
          /\ ProcessedAvailable(station) = {1, 2}
          /\ Lt(sorted_charger_reports[2].start_time, sorted_charger_reports[1].end_time)
          /\ Lt(sorted_charger_reports[1].end_time, sorted_charger_reports[2].end_time)
          /\ Calculation(station).available_time.n > 0

=============================================================================
